---- MODULE Spec2Model ----
(***************************************************************************)
(* daily-dose: a command-line task log backed by one SQLite table.         *)
(*                                                                         *)
(* The model covers the date resolver (utils.rs), the task store           *)
(* (database.rs) and the command handlers (cmd_handler.rs).  One command   *)
(* line invocation is one action: it reads the local date, runs a single   *)
(* handler to completion (or to its panic) and exits.                      *)
(*                                                                         *)
(* Text is modelled as a sequence of byte values, so that the ordering     *)
(* SQLite applies to TEXT columns (bytewise) is computed and not assumed.  *)
(* Option<T> is modelled as a sequence of length 0 (None) or 1 (Some).     *)
(***************************************************************************)
EXTENDS Integers, Sequences, FiniteSets, TLC

VARIABLES
    today,   \* what Local::now().date_naive() returns to this invocation
    store,   \* the rows of table `tasks`
    pre,     \* the rows of table `tasks` before the last invocation
    out      \* the last invocation: what was called, with what, and how it ended

vars == <<today, store, pre, out>>

----------------------------------------------------------------------------
(* Bounds of the model and constants of the program                        *)

\* Identifiers drawn by Ulid::new() are taken from 1..MaxUlid.
MaxUlid == 3

\* Task indexes given to mark / unmark are taken from 1..MaxIndex.
MaxIndex == 4

\* value_parser ranges of the argument grammar
MonthMax == 12
DayMax == 31
YearFloor == 1978
IndexMax == 100

\* The calendar years the model draws dates from: one common, one leap year.
Years == {2023, 2024}

None == <<>>
Some(v) == <<v>>
IsSome(o) == Len(o) = 1
Unwrap(o) == o[1]
Opt(S) == {None} \cup {Some(v) : v \in S}

----------------------------------------------------------------------------
(* chrono::NaiveDate                                                       *)

IsLeapYear(y) == (y % 4 = 0 /\ y % 100 # 0) \/ y % 400 = 0

DaysInMonth(y, m) ==
    IF m = 2 THEN (IF IsLeapYear(y) THEN 29 ELSE 28)
    ELSE IF m \in {4, 6, 9, 11} THEN 30 ELSE 31

\* NaiveDate::from_ymd_opt: the date exists in the proleptic Gregorian calendar
ValidYmd(y, m, d) == m \in 1..12 /\ d >= 1 /\ d <= DaysInMonth(y, m)

NaiveDate(y, m, d) == [year |-> y, month |-> m, day |-> d]

Calendar == {NaiveDate(y, m, d) : y \in Years, m \in 1..12, d \in 1..31}

ValidDates == {dt \in Calendar : ValidYmd(dt.year, dt.month, dt.day)}

\* The days of the month the local date is drawn from: every day from 28 on
\* (the days some month lacks) and two of the days every month has.
BaseDays == {1, 15, 28, 29, 30, 31}

BaseDates == {dt \in ValidDates : dt.day \in BaseDays}

\* Datelike::with_year / with_month / with_day: None when the date does not exist
with_year(dt, y) ==
    IF ValidYmd(y, dt.month, dt.day) THEN Some(NaiveDate(y, dt.month, dt.day)) ELSE None

with_month(dt, m) ==
    IF ValidYmd(dt.year, m, dt.day) THEN Some(NaiveDate(dt.year, m, dt.day)) ELSE None

with_day(dt, d) ==
    IF ValidYmd(dt.year, dt.month, d) THEN Some(NaiveDate(dt.year, dt.month, d)) ELSE None

\* Ord for NaiveDate
DateLeq(a, b) ==
    \/ a.year < b.year
    \/ a.year = b.year /\ a.month < b.month
    \/ a.year = b.year /\ a.month = b.month /\ a.day <= b.day

----------------------------------------------------------------------------
(* utils.rs                                                                *)

Ok(v) == [kind |-> "ok", val |-> v]
Panic(msg) == [kind |-> "panic", val |-> msg]

\* The variant of construct_timestamp that applies the day before the month.
construct_timestamp_day_first(base, year, month, day) ==
    LET t1 == IF IsSome(year) THEN with_year(base, Unwrap(year)) ELSE Some(base)
        t2 == IF t1 = None THEN None
              ELSE IF IsSome(day) THEN with_day(Unwrap(t1), Unwrap(day)) ELSE t1
        t3 == IF t2 = None THEN None
              ELSE IF IsSome(month) THEN with_month(Unwrap(t2), Unwrap(month)) ELSE t2
    IN  IF t3 = None THEN Panic("Invalid date") ELSE Ok(Unwrap(t3))

\* construct_timestamp: year, then month, then day; panic!("Invalid date") as
\* soon as one of the three steps has no result.
construct_timestamp(base, year, month, day) ==
    LET t1 == IF IsSome(year) THEN with_year(base, Unwrap(year)) ELSE Some(base)
        t2 == IF t1 = None THEN None
              ELSE IF IsSome(month) THEN with_month(Unwrap(t1), Unwrap(month)) ELSE t1
        t3 == IF t2 = None THEN None
              ELSE IF IsSome(day) THEN with_day(Unwrap(t2), Unwrap(day)) ELSE t2
    IN  IF t3 = None THEN Panic("Invalid date") ELSE Ok(Unwrap(t3))

Digit(n) == 48 + n

\* iso_format_timestamp: format("%F"), that is YYYY-MM-DD (years 0..9999)
iso_format_timestamp(dt) ==
    << Digit(dt.year \div 1000), Digit((dt.year \div 100) % 10),
       Digit((dt.year \div 10) % 10), Digit(dt.year % 10), 45,
       Digit(dt.month \div 10), Digit(dt.month % 10), 45,
       Digit(dt.day \div 10), Digit(dt.day % 10) >>

\* Text of a number, as Display prints it
RECURSIVE DecimalText(_)
DecimalText(n) == IF n < 10 THEN <<Digit(n)>> ELSE DecimalText(n \div 10) \o <<Digit(n % 10)>>

----------------------------------------------------------------------------
(* main.rs: Status and its stored form                                     *)

Status == {"Todo", "InProgress", "Done", "Blocked"}

\* The variant of Status_to_string that lowercases without underscores.
Status_to_string_lowercase(s) ==
    CASE s = "Todo" -> "todo"
      [] s = "InProgress" -> "inprogress"
      [] s = "Done" -> "done"
      [] s = "Blocked" -> "blocked"

\* #[strum(serialize_all = "snake_case")] Display, used by ToSql
Status_to_string(s) ==
    CASE s = "Todo" -> "todo"
      [] s = "InProgress" -> "in_progress"
      [] s = "Done" -> "done"
      [] s = "Blocked" -> "blocked"

\* EnumString::from_str, used by FromSql: None stands for Err(VariantNotFound)
Status_from_str(t) ==
    CASE t = "todo" -> Some("Todo")
      [] t = "in_progress" -> Some("InProgress")
      [] t = "done" -> Some("Done")
      [] t = "blocked" -> Some("Blocked")
      [] OTHER -> None

\* The values of column `status` that are not TEXT: the model holds one BLOB,
\* spelled as its SQL literal
NonTextValues == {"X'00'"}

\* ValueRef::as_str: None stands for Err(FromSqlError::InvalidType)
as_str(value) == IF value \in NonTextValues THEN None ELSE Some(value)

\* impl FromSql for Status: value.as_str().map(|s| Status::from_str(s).unwrap())
Status_column_result(value) ==
    IF as_str(value) = None THEN [kind |-> "err", val |-> "InvalidType"]
    ELSE IF Status_from_str(Unwrap(as_str(value))) = None
         THEN Panic("unwrap on VariantNotFound")
    ELSE Ok(Unwrap(Status_from_str(Unwrap(as_str(value)))))

----------------------------------------------------------------------------
(* database.rs                                                             *)

\* Byte order of two texts (SQLite's BINARY collation, Rust's Ord for String):
\* the first differing byte decides, a proper prefix is smaller
TextLeq(a, b) ==
    LET n == IF Len(a) < Len(b) THEN Len(a) ELSE Len(b)
        diff == {i \in 1..n : a[i] # b[i]}
    IN  IF diff = {} THEN Len(a) <= Len(b)
        ELSE LET k == CHOOSE i \in diff : \A j \in diff : i <= j
             IN  a[k] < b[k]

\* Crockford base 32, the alphabet of Ulid::to_string
Crockford ==
    << 48, 49, 50, 51, 52, 53, 54, 55, 56, 57, 65, 66, 67, 68, 69, 70,
       71, 72, 74, 75, 77, 78, 80, 81, 82, 83, 84, 86, 87, 88, 89, 90 >>

\* Ulid::to_string, most significant digit first; the model keeps the two
\* least significant of the 26 digits (the others are equal for all its ids)
Ulid_to_string(n) == << Crockford[((n \div 32) % 32) + 1], Crockford[(n % 32) + 1] >>

\* The identifiers Ulid::new() can draw in the model
Ulids == {Ulid_to_string(n) : n \in 1..MaxUlid}

Ids(rows) == {r.id : r \in rows}

Err(e) == [kind |-> "err", val |-> e]

\* insert_task for the identifier `uid` drawn by Ulid::new(): the INSERT
\* fails on the primary key when the identifier is taken
insert_task(rows, uid, desc, status, timestamp) ==
    IF uid \in Ids(rows)
    THEN [res |-> Err("ConstraintViolation"), rows |-> rows]
    ELSE [res |-> Ok(uid),
          rows |-> rows \cup {[id |-> uid, description |-> desc,
                               status |-> Status_to_string(status), date |-> timestamp]}]

\* The variant of DateMatches whose range excludes its upper bound.
DateMatchesExclusive(r, start_date, end_date) ==
    IF IsSome(end_date)
    THEN TextLeq(start_date, r.date) /\ TextLeq(r.date, Unwrap(end_date))
         /\ r.date # Unwrap(end_date)
    ELSE r.date = start_date

\* WHERE date BETWEEN :start_date AND :end_date   /   WHERE date = :start_date
DateMatches(r, start_date, end_date) ==
    IF IsSome(end_date)
    THEN TextLeq(start_date, r.date) /\ TextLeq(r.date, Unwrap(end_date))
    ELSE r.date = start_date

\* ORDER BY id
RECURSIVE OrderById(_)
OrderById(rows) ==
    IF rows = {} THEN <<>>
    ELSE LET first == CHOOSE r \in rows : \A q \in rows : TextLeq(r.id, q.id)
         IN  <<first>> \o OrderById(rows \ {first})

\* The closure given to query_map: one row to one Task
RowToTask(r) ==
    [id |-> r.id, description |-> r.description,
     status |-> Status_column_result(r.status).val, date |-> r.date]

\* Whether the closure given to query_map returns Ok for the row
RowIsOk(r) == Status_column_result(r.status).kind = "ok"

\* get_tasks_by_date: the matching rows in id order, each mapped to a Task;
\* rows.flatten() passes over the rows whose mapping is an Err.
\* Status::from_str(s).unwrap() panics on a status text that names no member.
get_tasks_by_date(rows, start_date, end_date) ==
    LET selected == OrderById({r \in rows : DateMatches(r, start_date, end_date)})
        flattened == SelectSeq(selected, RowIsOk)
    IN  IF \E i \in 1..Len(selected) : Status_column_result(selected[i].status).kind = "panic"
        THEN Panic("unwrap on VariantNotFound")
        ELSE Ok([i \in 1..Len(flattened) |-> RowToTask(flattened[i])])

\* update_task_description: UPDATE ... WHERE id = :id, then Ok(())
\* The variant of update_task_description without its WHERE clause.
update_task_description_all_rows(rows, task_id, desc) ==
    [res |-> Ok(<<>>),
     rows |-> {[r EXCEPT !.description = desc] : r \in rows}]

update_task_description(rows, task_id, desc) ==
    [res |-> Ok(<<>>),
     rows |-> {IF r.id = task_id THEN [r EXCEPT !.description = desc] ELSE r : r \in rows}]

\* The variant of update_task_status that only moves a task out of todo.
update_task_status_if_todo(rows, task_id, status) ==
    [res |-> Ok(<<>>),
     rows |-> {IF r.id = task_id /\ r.status = "todo"
               THEN [r EXCEPT !.status = Status_to_string(status)] ELSE r : r \in rows}]

\* The variant of update_task_status without its WHERE clause.
update_task_status_all_rows(rows, task_id, status) ==
    [res |-> Ok(<<>>),
     rows |-> {[r EXCEPT !.status = Status_to_string(status)] : r \in rows}]

\* update_task_status: UPDATE ... WHERE id = :id, then Ok(())
update_task_status(rows, task_id, status) ==
    [res |-> Ok(<<>>),
     rows |-> {IF r.id = task_id THEN [r EXCEPT !.status = Status_to_string(status)] ELSE r
               : r \in rows}]

\* delete_task: DELETE ... WHERE id = :id, then Ok(())
delete_task(rows, task_id) ==
    [res |-> Ok(<<>>), rows |-> {r \in rows : r.id # task_id}]

----------------------------------------------------------------------------
(* utils.rs: render_tasks_table                                            *)

\* The variant of the inner loop that shows `index` rather than `index + 1`.
GroupRows_index_from_zero(date, tasks, include_id, last_used_date) ==
    [i \in 1..Len(tasks) |->
        [date |-> IF date = (IF i = 1 THEN last_used_date ELSE date) THEN <<>> ELSE date,
         description |-> tasks[i].description,
         status |-> Status_to_string(tasks[i].status),
         last |-> IF include_id THEN tasks[i].id ELSE DecimalText(i - 1)]]

\* The rows added to the table for one group; `last_used_date` is the date
\* of the row added before the group's first row
GroupRows(date, tasks, include_id, last_used_date) ==
    [i \in 1..Len(tasks) |->
        [date |-> IF date = (IF i = 1 THEN last_used_date ELSE date) THEN <<>> ELSE date,
         description |-> tasks[i].description,
         status |-> Status_to_string(tasks[i].status),
         last |-> IF include_id THEN tasks[i].id ELSE DecimalText((i - 1) + 1)]]

RECURSIVE TableRows(_, _, _)
TableRows(grouped_tasks, include_id, last_used_date) ==
    IF grouped_tasks = <<>> THEN <<>>
    ELSE LET date == Head(grouped_tasks)[1]
             tasks == Head(grouped_tasks)[2]
         IN  GroupRows(date, tasks, include_id, last_used_date)
             \o TableRows(Tail(grouped_tasks), include_id,
                          IF tasks = <<>> THEN last_used_date ELSE date)

\* render_tasks_table: what is printed, with what the caller handed over
render_tasks_table(grouped_tasks, include_id) ==
    [groups |-> grouped_tasks, include_id |-> include_id,
     table |-> TableRows(grouped_tasks, include_id, <<>>)]

----------------------------------------------------------------------------
(* cmd_handler.rs                                                          *)

\* The loop of handle_cmd_list that fills date_tasks_map: each task is pushed
\* to the list of its date, in the order of the fetch
RECURSIVE date_tasks_map(_)
date_tasks_map(tasks) ==
    IF tasks = <<>> THEN <<>>
    ELSE LET map == date_tasks_map(SubSeq(tasks, 1, Len(tasks) - 1))
             task == tasks[Len(tasks)]
         IN  IF \E k \in DOMAIN map : map[k][1] = task.date
             THEN [k \in DOMAIN map |->
                     IF map[k][1] = task.date
                     THEN <<map[k][1], Append(map[k][2], task)>> ELSE map[k]]
             ELSE Append(map, <<task.date, <<task>>>>)

Entries(map) == {map[k] : k \in DOMAIN map}

\* The variant of task_grouped_by_date that sorts the dates ascending.
RECURSIVE task_grouped_by_date_ascending(_)
task_grouped_by_date_ascending(entries) ==
    IF entries = {} THEN <<>>
    ELSE LET first == CHOOSE e \in entries : \A f \in entries : TextLeq(e[1], f[1])
         IN  <<first>> \o task_grouped_by_date_ascending(entries \ {first})

\* date_tasks_map.iter().collect() followed by sort_by(|a, b| b.0.cmp(a.0)):
\* the entries of the map (in whatever order the HashMap yields them, its keys
\* being distinct) sorted by date, greatest first
RECURSIVE task_grouped_by_date(_)
task_grouped_by_date(entries) ==
    IF entries = {} THEN <<>>
    ELSE LET first == CHOOSE e \in entries : \A f \in entries : TextLeq(f[1], e[1])
         IN  <<first>> \o task_grouped_by_date(entries \ {first})

Outcome(kind, val, rows) == [kind |-> kind, val |-> val, rows |-> rows]

handle_cmd_list(now0, rows, month, include_id) ==
    LET now == IF IsSome(month) THEN with_month(now0, Unwrap(month)) ELSE Some(now0)
    IN  IF now = None THEN Outcome("panic", "Invalid month", rows)
        ELSE
        LET first == with_day(Unwrap(now), 1)
        IN  IF first = None THEN Outcome("panic", "Internal Error: Invalid day", rows)
            ELSE
            LET start_date == iso_format_timestamp(Unwrap(first))
                end_date == iso_format_timestamp(Unwrap(now))
                fetched == get_tasks_by_date(rows, start_date, Some(end_date))
            IN  IF fetched.kind = "panic" THEN Outcome("panic", fetched.val, rows)
                ELSE Outcome("ok",
                          [start_date |-> start_date, end_date |-> end_date,
                           shown |-> render_tasks_table(
                                       task_grouped_by_date(Entries(date_tasks_map(fetched.val))),
                                       include_id)],
                          rows)

handle_cmd_show(now, rows, year, month, day, include_id) ==
    LET timestamp == construct_timestamp(now, year, month, day)
    IN  IF timestamp.kind = "panic" THEN Outcome("panic", timestamp.val, rows)
        ELSE
        LET start_date == iso_format_timestamp(timestamp.val)
            fetched == get_tasks_by_date(rows, start_date, None)
        IN  IF fetched.kind = "panic" THEN Outcome("panic", fetched.val, rows)
            ELSE Outcome("ok",
                      [start_date |-> start_date, end_date |-> start_date,
                       shown |-> render_tasks_table(<< <<start_date, fetched.val>> >>,
                                                    include_id)],
                      rows)

\* handle_cmd_add, for the identifier `uid` drawn by Ulid::new(); an error of
\* the insert is printed
handle_cmd_add(now, rows, uid, task_description, year, month, day) ==
    LET timestamp == construct_timestamp(now, year, month, day)
    IN  IF timestamp.kind = "panic" THEN Outcome("panic", timestamp.val, rows)
        ELSE
        LET inserted == insert_task(rows, uid, task_description, "Todo",
                                    iso_format_timestamp(timestamp.val))
        IN  IF inserted.res.kind = "err"
            THEN Outcome("printed", "Error inserting new task", inserted.rows)
            ELSE Outcome("ok", inserted.res.val, inserted.rows)

\* handle_cmd_update and handle_cmd_delete print their arguments
handle_cmd_update(rows) == Outcome("ok", "Update sub command matches", rows)

handle_cmd_delete(rows) == Outcome("ok", "Deleted sub command matches", rows)

\* The variant of get_row that clamps the index to the last task.
get_row_clamped(tasks, task_index) ==
    IF tasks = <<>> THEN None
    ELSE IF task_index - 1 < Len(tasks) THEN Some(tasks[(task_index - 1) + 1])
    ELSE Some(tasks[Len(tasks)])

\* tasks.get(*task_index as usize - 1), for an index of at least 1
get_row(tasks, task_index) ==
    IF task_index - 1 < Len(tasks) THEN Some(tasks[(task_index - 1) + 1]) ELSE None

handle_cmd_mark(now, rows, task_index) ==
    LET start_date == iso_format_timestamp(now)
        fetched == get_tasks_by_date(rows, start_date, None)
    IN  IF fetched.kind = "panic" THEN Outcome("panic", "Failed to fetch tasks", rows)
        ELSE
        LET selected_row == get_row(fetched.val, task_index)
        IN  IF selected_row = None THEN Outcome("panic", "Error: Index outbound", rows)
            ELSE
            LET updated == update_task_status(rows, Unwrap(selected_row).id, "Done")
            IN  IF updated.res.kind = "err" THEN Outcome("panic", "Failed to update task", rows)
                ELSE Outcome("ok", Unwrap(selected_row).id, updated.rows)

handle_cmd_unmark(now, rows, task_index) ==
    LET start_date == iso_format_timestamp(now)
        fetched == get_tasks_by_date(rows, start_date, None)
    IN  IF fetched.kind = "panic" THEN Outcome("panic", "Failed to fetch tasks", rows)
        ELSE
        LET selected_row == get_row(fetched.val, task_index)
        IN  IF selected_row = None THEN Outcome("panic", "Error: Index outbound", rows)
            ELSE
            LET updated == update_task_status(rows, Unwrap(selected_row).id, "Todo")
            IN  IF updated.res.kind = "err" THEN Outcome("panic", "Failed to update task", rows)
                ELSE Outcome("ok", Unwrap(selected_row).id, updated.rows)

----------------------------------------------------------------------------
(* Invocations                                                             *)

Start == [cmd |-> "start", args |-> <<>>, kind |-> "ok", val |-> <<>>]

\* One run of the program, or one call of the store, from start to end
Invoke(cmd, args, kind, val, rows) ==
    /\ out' = [cmd |-> cmd, args |-> args, kind |-> kind, val |-> val]
    /\ pre' = store
    /\ store' = rows
    /\ UNCHANGED today

\* The texts the model gives as task description: "", " " and "A"
Descriptions == {<<>>, <<32>>, <<65>>}

\* NonEmptyStringValueParser, on [TASK]: every text but ""
CliDescriptions == {d \in Descriptions : d # <<>>}

\* The local dates of the runs, and the passing of days between them
Todays == {NaiveDate(2024, 5, 31), NaiveDate(2024, 6, 2)}

NewDay ==
    /\ \E d \in Todays : DateLeq(today, d) /\ d # today /\ today' = d
    /\ UNCHANGED <<store, pre, out>>

CmdList(months) ==
    \E month \in months, include_id \in BOOLEAN :
        LET r == handle_cmd_list(today, store, month, include_id)
        IN  Invoke("list", [now |-> today, month |-> month, include_id |-> include_id],
                   r.kind, r.val, r.rows)

CmdShow(years, months, days) ==
    \E year \in years, month \in months, day \in days, include_id \in BOOLEAN :
        LET r == handle_cmd_show(today, store, year, month, day, include_id)
        IN  Invoke("show", [now |-> today, year |-> year, month |-> month, day |-> day,
                            include_id |-> include_id],
                   r.kind, r.val, r.rows)

CmdAdd(descs, years, months, days) ==
    \E uid \in Ulids, desc \in descs, year \in years, month \in months, day \in days :
        LET r == handle_cmd_add(today, store, uid, desc, year, month, day)
        IN  Invoke("add", [now |-> today, uid |-> uid, description |-> desc,
                           year |-> year, month |-> month, day |-> day],
                   r.kind, r.val, r.rows)

CmdUpdate ==
    LET r == handle_cmd_update(store)
    IN  Invoke("update", [now |-> today], r.kind, r.val, r.rows)

CmdDelete ==
    LET r == handle_cmd_delete(store)
    IN  Invoke("delete", [now |-> today], r.kind, r.val, r.rows)

\* TASK_INDEX is parsed as u8 in 1..=100
TaskIndexes == {i \in 1..MaxIndex : i <= IndexMax}

CmdMark ==
    \E task_index \in TaskIndexes :
        LET r == handle_cmd_mark(today, store, task_index)
        IN  Invoke("mark", [now |-> today, task_index |-> task_index], r.kind, r.val, r.rows)

CmdUnmark ==
    \E task_index \in TaskIndexes :
        LET r == handle_cmd_unmark(today, store, task_index)
        IN  Invoke("unmark", [now |-> today, task_index |-> task_index], r.kind, r.val, r.rows)

CallInsertTask(descs, statuses, dates) ==
    \E uid \in Ulids, desc \in descs, status \in statuses, date \in dates :
        LET r == insert_task(store, uid, desc, status, date)
        IN  Invoke("insert_task",
                   [uid |-> uid, description |-> desc, status |-> status, date |-> date],
                   r.res.kind, r.res.val, r.rows)

CallGetTasksByDate(starts, ends) ==
    \E start_date \in starts, end_date \in ends :
        LET r == get_tasks_by_date(store, start_date, end_date)
        IN  Invoke("get_tasks_by_date", [start_date |-> start_date, end_date |-> end_date],
                   r.kind, r.val, store)

CallUpdateTaskDescription(ids, descs) ==
    \E task_id \in ids, desc \in descs :
        LET r == update_task_description(store, task_id, desc)
        IN  Invoke("update_task_description", [task_id |-> task_id, description |-> desc],
                   r.res.kind, r.res.val, r.rows)

CallUpdateTaskStatus(ids, statuses) ==
    \E task_id \in ids, status \in statuses :
        LET r == update_task_status(store, task_id, status)
        IN  Invoke("update_task_status", [task_id |-> task_id, status |-> status],
                   r.res.kind, r.res.val, r.rows)

CallDeleteTask(ids) ==
    \E task_id \in ids :
        LET r == delete_task(store, task_id)
        IN  Invoke("delete_task", [task_id |-> task_id], r.res.kind, r.res.val, r.rows)

\* Another program writes column `status` of a stored row: the schema
\* (status TEXT NOT NULL) admits every text and every BLOB
ExternalWrite(values) ==
    \E r \in store, value \in values :
        Invoke("external_write", [task_id |-> r.id, status |-> value], "ok", <<>>,
               (store \ {r}) \cup {[r EXCEPT !.status = value]})

----------------------------------------------------------------------------
(* The program as its command line drives it, day after day: tasks are     *)
(* added on the day of the run, listed, shown, marked and unmarked.        *)

ListMonths == {None, Some(5), Some(6)}

Init ==
    /\ today \in Todays
    /\ store = {}
    /\ pre = {}
    /\ out = Start

Next ==
    \/ CmdAdd({<<65>>}, {None}, {None}, {None})
    \/ CmdList(ListMonths)
    \/ CmdShow({None}, {None}, {None})
    \/ CmdMark
    \/ CmdUnmark
    \/ CmdUpdate
    \/ CmdDelete
    \/ NewDay

Spec == Init /\ [][Next]_vars

----------------------------------------------------------------------------
(* Marking and unmarking tasks of every status: the tasks of one day, the  *)
(* store's status update called directly with each member of Status.       *)

InitStatus ==
    /\ today = NaiveDate(2024, 6, 2)
    /\ store = {}
    /\ pre = {}
    /\ out = Start

NextStatus ==
    \/ CmdAdd({<<65>>}, {None}, {None}, {None})
    \/ CmdMark
    \/ CmdUnmark
    \/ CallUpdateTaskStatus(Ulids, Status)

SpecStatus == InitStatus /\ [][NextStatus]_vars

----------------------------------------------------------------------------
(* Queries: tasks are added on days of two months, then fetched,           *)
(* listed and shown.                                                       *)

QueryDays == {None, Some(1)}

\* The dates given to a direct call of get_tasks_by_date
QueryStarts ==
    {iso_format_timestamp(d) : d \in {NaiveDate(2024, 5, 31), NaiveDate(2024, 6, 1),
                                      NaiveDate(2024, 6, 2)}}

QueryEnds ==
    Opt({iso_format_timestamp(d) : d \in {NaiveDate(2024, 6, 1), NaiveDate(2024, 6, 2)}})

NextQuery ==
    \/ CmdAdd({<<65>>}, {None}, {None}, QueryDays)
    \/ CmdList(ListMonths)
    \/ CmdShow({None}, {None}, QueryDays)
    \/ CallGetTasksByDate(QueryStarts, QueryEnds)
    \/ NewDay

SpecQuery == Init /\ [][NextQuery]_vars

----------------------------------------------------------------------------
(* The store's operations called directly, with every description and with *)
(* identifiers stored or not.                                              *)

NextStore ==
    \/ CallInsertTask(Descriptions, {"Todo"}, {iso_format_timestamp(today)})
    \/ CmdAdd(CliDescriptions, {None}, {None}, {None})
    \/ CallUpdateTaskDescription(Ulids, Descriptions)
    \/ CallUpdateTaskStatus(Ulids, {"Todo", "Done"})
    \/ CallDeleteTask(Ulids)

InitStore ==
    /\ today = NaiveDate(2024, 6, 2)
    /\ store = {}
    /\ pre = {}
    /\ out = Start

SpecStore == InitStore /\ [][NextStore]_vars

----------------------------------------------------------------------------
(* Statuses written and read back: tasks of one day are inserted and       *)
(* updated with each member of Status, then fetched.                       *)

NextRoundTrip ==
    \/ CallInsertTask({<<65>>}, Status, {iso_format_timestamp(today)})
    \/ CallUpdateTaskStatus(Ulids, Status)
    \/ CallGetTasksByDate({iso_format_timestamp(today)}, {None})

SpecRoundTrip == InitStatus /\ [][NextRoundTrip]_vars

----------------------------------------------------------------------------
(* A table another program has written to: the status of a stored row is   *)
(* replaced by a text that names no member of Status ("completed", the     *)
(* token of a two-state Status) or by a BLOB, and the day's tasks are      *)
(* fetched.                                                                *)

CorruptStatuses == {"completed"} \cup NonTextValues

NextCorrupt ==
    \/ CmdAdd({<<65>>}, {None}, {None}, {None})
    \/ ExternalWrite(CorruptStatuses)
    \/ CallGetTasksByDate({iso_format_timestamp(today)}, {None})

SpecCorrupt == InitStatus /\ [][NextCorrupt]_vars

----------------------------------------------------------------------------
(* The resolver on its own: every base date, every override the argument   *)
(* grammar lets through.                                                   *)

YearArgs == Opt({y \in Years : y >= YearFloor})
MonthArgs == Opt(1..MonthMax)
DayArgs == Opt(1..DayMax)

InitResolve ==
    /\ today \in BaseDates
    /\ store = {}
    /\ pre = {}
    /\ out = Start

\* One invocation resolves one date: the call is made once per behaviour.
Resolve ==
    \E year \in YearArgs, month \in MonthArgs, day \in DayArgs :
        LET r == construct_timestamp(today, year, month, day)
        IN  /\ out.cmd = "start"
            /\ out' = [cmd |-> "construct_timestamp",
                       args |-> [base |-> today, year |-> year, month |-> month, day |-> day],
                       kind |-> r.kind, val |-> r.val]
            /\ UNCHANGED <<today, store, pre>>

NextResolve == Resolve

SpecResolve == InitResolve /\ [][NextResolve]_vars

----------------------------------------------------------------------------
(* Claims about the date resolver, checked under SpecResolve               *)

Resolved == out.cmd = "construct_timestamp"

\* The date the overrides name: the year, month and day given, the base
\* date's where none is given.
TargetYear == IF IsSome(out.args.year) THEN Unwrap(out.args.year) ELSE out.args.base.year
TargetMonth == IF IsSome(out.args.month) THEN Unwrap(out.args.month) ELSE out.args.base.month
TargetDay == IF IsSome(out.args.day) THEN Unwrap(out.args.day) ELSE out.args.base.day

\* C1: with a month and a day override (no year override) and a base date
\* whose day of month exists in the target month, the resolver returns
\* (base.year, month, day) whenever that date exists: the day is validated
\* against the overridden month.  resolve(2024-04-15, month 3, day 31) is
\* 2024-03-31.
C1_DayCheckedAgainstOverriddenMonth ==
    /\ ( /\ Resolved
         /\ out.args.year = None /\ IsSome(out.args.month) /\ IsSome(out.args.day)
         /\ ValidYmd(out.args.base.year, TargetMonth, out.args.base.day)
         /\ ValidYmd(out.args.base.year, TargetMonth, TargetDay) )
       => ( out.kind = "ok"
            /\ out.val = NaiveDate(out.args.base.year, TargetMonth, TargetDay) )
    /\ ( /\ Resolved
         /\ out.args = [base |-> NaiveDate(2024, 4, 15), year |-> None,
                        month |-> Some(3), day |-> Some(31)] )
       => ( out.kind = "ok" /\ out.val = NaiveDate(2024, 3, 31) )

C1_Witness ==
    /\ Resolved
    /\ out.args = [base |-> NaiveDate(2024, 4, 15), year |-> None,
                   month |-> Some(3), day |-> Some(31)]
    /\ out.kind = "ok"
    /\ out.val = NaiveDate(2024, 3, 31)

\* C2: when the overrides name a date that does not exist (month 2 with
\* day 30 in particular, for every base date and year), the resolver returns
\* an InvalidDate error to its caller.
C2_InvalidDateIsReturned ==
    ( Resolved /\ ~ValidYmd(TargetYear, TargetMonth, TargetDay) )
       => ( out.kind = "err" /\ out.val = "InvalidDate" )

----------------------------------------------------------------------------
(* Claims about the store's fetch and the grouped listing, checked under   *)
(* SpecQuery                                                               *)

\* The calendar date a YYYY-MM-DD text names
DateOfText(t) ==
    NaiveDate((t[1] - 48) * 1000 + (t[2] - 48) * 100 + (t[3] - 48) * 10 + (t[4] - 48),
              (t[6] - 48) * 10 + (t[7] - 48),
              (t[9] - 48) * 10 + (t[10] - 48))

\* The rows a fetch of [start_date, end_date], or of start_date alone, is to
\* return, by the calendar
Wanted(rows, start_date, end_date) ==
    {r \in rows :
        IF IsSome(end_date)
        THEN /\ DateLeq(DateOfText(start_date), DateOfText(r.date))
             /\ DateLeq(DateOfText(r.date), DateOfText(Unwrap(end_date)))
        ELSE DateOfText(r.date) = DateOfText(start_date)}

\* A Task carries the fields of the row
TaskOfRow(task, r) ==
    /\ task.id = r.id
    /\ task.description = r.description
    /\ task.date = r.date
    /\ Status_to_string(task.status) = r.status

AscendingIds(tasks) ==
    \A i, j \in 1..Len(tasks) :
        i < j => (TextLeq(tasks[i].id, tasks[j].id) /\ tasks[i].id # tasks[j].id)

\* `tasks` holds exactly the rows of `wanted`, each once, in ascending id order
ExactlyInIdOrder(tasks, wanted) ==
    /\ Len(tasks) = Cardinality(wanted)
    /\ \A r \in wanted : \E i \in 1..Len(tasks) : TaskOfRow(tasks[i], r)
    /\ AscendingIds(tasks)

\* C3: get_tasks_by_date(start, Some(end)) returns exactly the stored tasks
\* with start <= date <= end, get_tasks_by_date(start, None) exactly those
\* whose date is start; each once, in ascending id order.
C3_FetchExactlyTheRange ==
    out.cmd = "get_tasks_by_date"
       => ( /\ out.kind = "ok"
            /\ ExactlyInIdOrder(out.val, Wanted(store, out.args.start_date, out.args.end_date)) )

C3_Witness ==
    /\ out.cmd = "get_tasks_by_date"
    /\ out.args.start_date = iso_format_timestamp(NaiveDate(2024, 6, 1))
    /\ out.args.end_date = Some(iso_format_timestamp(NaiveDate(2024, 6, 2)))
    /\ Len(out.val) = 2
    /\ out.val[1].date = Unwrap(out.args.end_date)
    /\ out.val[2].date = out.args.start_date
    /\ Cardinality(store) = 3

Groups == out.val.shown.groups

\* C4: the groups of the listing are in strictly descending date order, and
\* each group holds the stored tasks of its date in ascending id order; the
\* groups together hold every task of the listed range.  Tasks A on
\* 2024-06-01 and B, C on 2024-06-02 list as [(2024-06-02, [B, C]),
\* (2024-06-01, [A])].
C4_GroupsDescendingTasksAscending ==
    ( out.cmd = "list" /\ out.kind = "ok" )
       => ( /\ \A i, j \in 1..Len(Groups) :
                  i < j => ( /\ DateLeq(DateOfText(Groups[j][1]), DateOfText(Groups[i][1]))
                             /\ Groups[j][1] # Groups[i][1] )
            /\ \A i \in 1..Len(Groups) :
                  ExactlyInIdOrder(Groups[i][2], {r \in store : r.date = Groups[i][1]})
            /\ \A r \in Wanted(store, out.val.start_date, Some(out.val.end_date)) :
                  \E i \in 1..Len(Groups) : Groups[i][1] = r.date )

C4_Witness ==
    /\ out.cmd = "list" /\ out.kind = "ok"
    /\ Len(Groups) = 2
    /\ Groups[1][1] = iso_format_timestamp(NaiveDate(2024, 6, 2))
    /\ Groups[2][1] = iso_format_timestamp(NaiveDate(2024, 6, 1))
    /\ Len(Groups[1][2]) = 2
    /\ Len(Groups[2][2]) = 1
    /\ TextLeq(Groups[1][2][1].id, Groups[1][2][2].id)

\* C5: every group handed to the display, by list and by show, holds at
\* least one task; a query that matches nothing hands over no group.
C5_NoEmptyGroup ==
    ( out.cmd \in {"list", "show"} /\ out.kind = "ok" )
       => \A i \in 1..Len(Groups) : Groups[i][2] # <<>>

----------------------------------------------------------------------------
(* Claims about the store's mutations, checked under SpecStore             *)

\* C6: update_description, update_status and delete of an id that no stored
\* task has fail with NotFound and leave the store as it was.
C6_UnknownIdIsNotFound ==
    ( /\ out.cmd \in {"update_task_description", "update_task_status", "delete_task"}
      /\ out.args.task_id \notin Ids(pre) )
       => ( out.kind = "err" /\ out.val = "NotFound" /\ store = pre )

\* A text that is empty or holds spaces only
IsBlank(text) == \A i \in 1..Len(text) : text[i] = 32

\* C7: insert and update_description with an empty or blank description fail
\* with DescriptionEmpty and leave the store as it was; no stored task has an
\* empty description.
C7_BlankDescriptionRejected ==
    /\ ( /\ out.cmd \in {"insert_task", "update_task_description"}
         /\ IsBlank(out.args.description) )
       => ( out.kind = "err" /\ out.val = "DescriptionEmpty" /\ store = pre )
    /\ \A r \in store : r.description # <<>>

----------------------------------------------------------------------------
(* Claims about mark and unmark, checked under SpecStatus and Spec         *)

Marking == out.cmd \in {"mark", "unmark"}

\* The status mark, or unmark, is to leave
MarkStatus == IF out.cmd = "mark" THEN "Done" ELSE "Todo"

\* The rows of the day of the run, before it
TodaysRows == {r \in pre : r.date = iso_format_timestamp(out.args.now)}

\* The row at 1-based position n of `rows` in ascending id order
NthById(rows, n) ==
    CHOOSE r \in rows : Cardinality({q \in rows : TextLeq(q.id, r.id)}) = n

InRange == out.args.task_index >= 1 /\ out.args.task_index <= Cardinality(TodaysRows)

\* The same command run once more on the store it left
Again ==
    IF out.cmd = "mark" THEN handle_cmd_mark(out.args.now, store, out.args.task_index)
    ELSE handle_cmd_unmark(out.args.now, store, out.args.task_index)

\* C8: mark succeeds from every status and leaves the task Done, unmark
\* succeeds from every status and leaves it Todo; run a second time, each
\* succeeds again and leaves the store as the first run left it.
C8_MarkFromAnyStatusIdempotent ==
    ( Marking /\ InRange )
       => ( /\ out.kind = "ok"
            /\ \E r \in store :
                  /\ r.id = NthById(TodaysRows, out.args.task_index).id
                  /\ Status_from_str(r.status) = Some(MarkStatus)
            /\ Again.kind = "ok"
            /\ Again.rows = store )

C8_Witness ==
    /\ out.cmd = "mark" /\ InRange /\ out.kind = "ok"
    /\ NthById(TodaysRows, out.args.task_index).status = "blocked"
    /\ \E r \in store : r.id = out.val /\ r.status = "done"

\* C9: mark or unmark with an index beyond the number of the day's tasks
\* (none included) fails as out of range, is not clamped to an existing
\* position, and changes no task.
C9_IndexOutOfRangeFails ==
    ( Marking /\ ~InRange )
       => ( /\ out.kind = "panic"
            /\ out.val = "Error: Index outbound"
            /\ store = pre )

C9_Witness ==
    /\ out.cmd = "mark"
    /\ out.args.task_index = 3
    /\ Cardinality(TodaysRows) = 2
    /\ out.kind = "panic"
    /\ store = pre

\* C10: mark N (unmark N) with 1 <= N <= count sets the status of the N-th
\* of the day's tasks in ascending id order, and changes nothing else: no
\* other task's status, and no task's id, description or date.
C10_OnlyTheNthTaskChanges ==
    ( Marking /\ InRange )
       => LET target == NthById(TodaysRows, out.args.task_index)
          IN  store = (pre \ {target})
                        \cup {[target EXCEPT !.status = Status_to_string(MarkStatus)]}

C10_Witness ==
    /\ out.cmd = "mark" /\ out.args.task_index = 2 /\ out.kind = "ok"
    /\ Cardinality(TodaysRows) = 2
    /\ Cardinality(pre) = 3
    /\ \A r \in pre : r.status = "todo"
    /\ Cardinality({r \in store : r.status = "done"}) = 1

----------------------------------------------------------------------------
(* Claims about the stored form of Status, checked under SpecRoundTrip and *)
(* SpecCorrupt                                                             *)

\* The token each member of Status is stored as
CanonicalToken ==
    [s \in Status |->
        CASE s = "Todo" -> "todo"
          [] s = "InProgress" -> "in_progress"
          [] s = "Done" -> "done"
          [] s = "Blocked" -> "blocked"]

\* C11: a task persisted with status s is stored under the lowercase token
\* of s and read back with status s, for each of Todo, InProgress, Done and
\* Blocked: the status-to-token mapping is injective and the token-to-status
\* mapping is its inverse.
C11_StatusRoundTrip ==
    /\ ( out.cmd = "insert_task" /\ out.kind = "ok" )
       => \E r \in store : r.id = out.val /\ r.status = CanonicalToken[out.args.status]
    /\ ( out.cmd = "update_task_status" /\ out.args.task_id \in Ids(pre) )
       => \E r \in store :
             r.id = out.args.task_id /\ r.status = CanonicalToken[out.args.status]
    /\ out.cmd = "get_tasks_by_date"
       => ( /\ out.kind = "ok"
            /\ Len(out.val) = Cardinality(store)
            /\ \A i \in 1..Len(out.val) :
                  \E r \in store :
                     r.id = out.val[i].id /\ r.status = CanonicalToken[out.val[i].status] )
    /\ \A s, t \in Status : Status_to_string(s) = Status_to_string(t) => s = t
    /\ \A s \in Status : Status_from_str(Status_to_string(s)) = Some(s)

C11_Witness ==
    /\ out.cmd = "get_tasks_by_date" /\ out.kind = "ok"
    /\ Len(out.val) = 3
    /\ {out.val[i].status : i \in 1..3} = {"InProgress", "Done", "Blocked"}
    /\ {r.status : r \in store} = {"in_progress", "done", "blocked"}

\* A value of column `status` that decodes to no member of Status
Undecodable(value) == \A s \in Status : value # CanonicalToken[s]

\* C12: a fetch that matches a row whose status cannot be decoded does not
\* return a task list; every list a fetch returns holds all matching rows.
C12_NoRowSilentlyDropped ==
    out.cmd = "get_tasks_by_date"
       => LET matching == Wanted(store, out.args.start_date, out.args.end_date)
          IN  /\ (\E r \in matching : Undecodable(r.status)) => out.kind # "ok"
              /\ out.kind = "ok" => Len(out.val) = Cardinality(matching)

----------------------------------------------------------------------------
(* Claims about what an update leaves alone, checked under SpecStore       *)

\* The row of `rows` with id `id`
RowOf(rows, id) == CHOOSE r \in rows : r.id = id

\* The field the update named by out.cmd writes, and the value it writes
Updating == out.cmd \in {"update_task_description", "update_task_status"}

\* C13: update_description on id X changes only the description of the task
\* with id X, update_status on id X only its status; the id and the date of
\* that task and every field of every other task are as before, and so is
\* the set of stored ids.
C13_UpdateChangesOneFieldOfOneTask ==
    Updating =>
        /\ Ids(store) = Ids(pre)
        /\ Cardinality(store) = Cardinality(pre)
        /\ \A r \in pre :
              LET s == RowOf(store, r.id)
              IN  /\ s.date = r.date
                  /\ r.id # out.args.task_id => s = r
                  /\ ( r.id = out.args.task_id /\ out.cmd = "update_task_description" )
                        => ( s = [r EXCEPT !.description = out.args.description] )
                  /\ ( r.id = out.args.task_id /\ out.cmd = "update_task_status" )
                        => ( s = [r EXCEPT !.status = CanonicalToken[out.args.status]] )

\* An update of the description of one of two stored tasks, which changes it
C13_Witness ==
    /\ out.cmd = "update_task_description"
    /\ out.args.task_id \in Ids(pre)
    /\ Cardinality(pre) >= 2
    /\ store # pre
    /\ \E r \in pre : r.id # out.args.task_id /\ r.description # out.args.description

----------------------------------------------------------------------------
(* The resolver and the base date, checked under SpecResolve               *)

\* C14: with a month and a day override, and a year override or none, the
\* resolver returns (year or base.year, month, day) whenever that date
\* exists, for every base date: no intermediate date formed with the base
\* date's day or month makes it fail.
C14_ResultIndependentOfBaseDate ==
    ( /\ Resolved
      /\ IsSome(out.args.month) /\ IsSome(out.args.day)
      /\ ValidYmd(TargetYear, TargetMonth, TargetDay) )
       => ( out.kind = "ok" /\ out.val = NaiveDate(TargetYear, TargetMonth, TargetDay) )

----------------------------------------------------------------------------
(* The range list queries, checked under Spec                              *)

\* The month list is asked for: the override, the current month without one
ListedMonth ==
    IF IsSome(out.args.month) THEN Unwrap(out.args.month) ELSE out.args.now.month

\* C15: for every current date and every month override, or none, list
\* computes its range without aborting and queries [start, end], start the
\* first day of the listed month of the current year and end the current day
\* of month in that month and year; start <= end.
C15_ListRangeNeverAborts ==
    out.cmd = "list"
       => /\ out.kind = "ok"
          /\ out.val.start_date
                = iso_format_timestamp(NaiveDate(out.args.now.year, ListedMonth, 1))
          /\ out.val.end_date
                = iso_format_timestamp(NaiveDate(out.args.now.year, ListedMonth,
                                                 out.args.now.day))
          /\ TextLeq(out.val.start_date, out.val.end_date)

----------------------------------------------------------------------------
(* The index shown and the index marked, checked under Spec                *)

\* The number of table rows of the groups before group `g`
RECURSIVE RowsBefore(_, _)
RowsBefore(groups, g) ==
    IF g = 1 THEN 0 ELSE Len(groups[g - 1][2]) + RowsBefore(groups, g - 1)

Displayed == out.cmd \in {"list", "show"} /\ out.kind = "ok" /\ ~out.args.include_id

\* C16: the task that list or show (include_id false) displays with index N
\* in the group of the day of the run is the task mark N and unmark N select
\* on the store as displayed.
C16_ShownIndexSelectsSameTask ==
    Displayed =>
        \A g \in 1..Len(Groups) :
            Groups[g][1] = iso_format_timestamp(out.args.now) =>
                \A k \in 1..Len(Groups[g][2]) :
                    LET row == out.val.shown.table[RowsBefore(Groups, g) + k]
                        task == Groups[g][2][k]
                    IN  /\ row.description = task.description
                        /\ \E N \in TaskIndexes :
                              /\ row.last = DecimalText(N)
                              /\ handle_cmd_mark(out.args.now, store, N).kind = "ok"
                              /\ handle_cmd_mark(out.args.now, store, N).val = task.id
                              /\ handle_cmd_unmark(out.args.now, store, N).kind = "ok"
                              /\ handle_cmd_unmark(out.args.now, store, N).val = task.id

\* A listing of two tasks of the day of the run, with indexes 1 and 2, while
\* the store holds a task of another day
C16_Witness ==
    /\ Displayed
    /\ out.cmd = "list"
    /\ Len(Groups) = 1
    /\ Groups[1][1] = iso_format_timestamp(out.args.now)
    /\ Len(Groups[1][2]) = 2
    /\ out.val.shown.table[2].last = DecimalText(2)
    /\ \E r \in store : r.date # Groups[1][1]

====
